---- MODULE Spec2Model ----
(***************************************************************************)
(* Model of examples/slu/speech_intent_slot/speech_intent_slot_train.py:   *)
(* main(cfg) builds the model, sources the encoder weights (none, local    *)
(* file, NGC name), applies the freeze policy, runs trainer.fit and the    *)
(* gated trainer.test.  Strings are sequences of one-character strings so  *)
(* that startswith / endswith are computed, not assumed.                   *)
(***************************************************************************)
EXTENDS Integers, Sequences, FiniteSets, TLC

VARIABLES cfg, files, test_ready, pc, params, requires_grad, log, loads, applied, trace, error

vars == <<cfg, files, test_ready, pc, params, requires_grad, log, loads, applied, trace, error>>

---------------------------------------------------------------------------
(* Values of configuration fields: Python None or a string.                *)
None == [none |-> TRUE, str |-> <<>>]
Str(s) == [none |-> FALSE, str |-> s]

(* Largest value a source parameter takes (1..MaxVal); InitVal is fresh.   *)
MaxVal == 1
InitVal == 0
TrainedVal == -1

Prefix_ssl == <<"s", "s", "l", "_">>
Prefix_stt == <<"s", "t", "t", "_">>
Suffix_nemo == <<".", "n", "e", "m", "o">>

(* The names the runs are configured with.                                 *)
EncoderNames ==
  { <<>>,
    <<"x">>,
    <<"s", "s", "l">>,
    <<"s", "s", "l", "_", "x">>,
    <<"s", "t", "t", "_", "x">>,
    <<"x", ".", "c", "k", "p", "t">>,
    <<"x", ".", "n", "e", "m", "o">>,
    <<"x", "n", "e", "m", "o">>,
    <<"s", "s", "l", "_", ".", "n", "e", "m", "o">> }

ManifestValues == { None, Str(<<>>), Str(<<"m">>) }

(* Parameter keys are <<module, name>>.                                    *)
TargetKeys == { <<"encoder", "a">>, <<"encoder", "b">>, <<"decoder", "a">> }
SourceKeys == { <<"encoder", "a">>, <<"encoder", "c">>, <<"decoder", "a">>, <<"decoder", "d">> }
SourceDicts == UNION { [ks -> 1..MaxVal] : ks \in SUBSET SourceKeys }

InitParams == [k \in TargetKeys |-> InitVal]

NoError == [type |-> "none", msg |-> <<>>]
NoDict == [k \in {} |-> InitVal]

---------------------------------------------------------------------------
(* Variant: a truthiness test, which also skips the empty string.          *)
UsePretrained_Truthy(n) == n # None /\ n.str # <<>>

(* line 89: pretrained_encoder_name is not None                            *)
UsePretrained(n) == n # None

(* str.startswith / str.endswith                                           *)
StartsWith(s, p) == Len(s) >= Len(p) /\ SubSeq(s, 1, Len(p)) = p
EndsWith(s, p) == Len(s) >= Len(p) /\ SubSeq(s, Len(s) - Len(p) + 1, Len(s)) = p

(* Variant: the prefix check takes priority over the file check.           *)
IsFile_UnlessPrefixed(name, fs) ==
  /\ name.str # <<>> /\ name.str \in fs
  /\ ~StartsWith(name.str, Prefix_ssl) /\ ~StartsWith(name.str, Prefix_stt)

(* Path(name).is_file(): Path("") is the current directory, never a file.  *)
IsFile(name, fs) == name.str # <<>> /\ name.str \in fs

(* Variant: the suffix test without the dot.                               *)
IsNemoFile_NoDot(name) == EndsWith(name.str, <<"n", "e", "m", "o">>)

(* lines 91, 95                                                            *)
IsNemoFile(name) == EndsWith(name.str, Suffix_nemo)

(* Variant: an unrecognised name falls back to the generic class.          *)
ModelCls_DefaultASR(name) ==
  IF StartsWith(name.str, Prefix_ssl) THEN "SpeechEncDecSelfSupervisedModel"
  ELSE "ASRModel"

(* Variant: the two classes exchanged.                                     *)
ModelCls_Swapped(name) ==
  IF StartsWith(name.str, Prefix_ssl) THEN "ASRModel"
  ELSE IF StartsWith(name.str, Prefix_stt) THEN "SpeechEncDecSelfSupervisedModel"
  ELSE "ValueError"

(* lines 105-110                                                           *)
ModelCls(name) ==
  IF StartsWith(name.str, Prefix_ssl) THEN "SpeechEncDecSelfSupervisedModel"
  ELSE IF StartsWith(name.str, Prefix_stt) THEN "ASRModel"
  ELSE "ValueError"

(* Variant: strict loading.                                                *)
Strict_True == TRUE

(* strict= argument of both load_state_dict calls                          *)
Strict == FALSE

(* module.state_dict() of a sub-module: keys relative to the sub-module.   *)
SubStateDict(sd, m) ==
  [n \in { k[2] : k \in { q \in DOMAIN sd : q[1] = m } } |-> sd[<<m, n>>]]

(* load_state_dict: matching keys are copied; with strict a key-set        *)
(* difference is reported as an error after the copy.                      *)
LoadStateDict(target, sd, strict) ==
  [ ok |-> (~strict) \/ (DOMAIN sd = DOMAIN target),
    params |-> [k \in DOMAIN target |-> IF k \in DOMAIN sd THEN sd[k] ELSE target[k]] ]

(* encoder.freeze() / encoder.unfreeze() on the requires_grad flags        *)
Freeze(rg) == [k \in DOMAIN rg |-> IF k[1] = "encoder" THEN FALSE ELSE rg[k]]
Unfreeze(rg) == [k \in DOMAIN rg |-> IF k[1] = "encoder" THEN TRUE ELSE rg[k]]

(* Variant: the error is recorded and the run carries on.                  *)
Abort_Continue(type, msg) ==
  /\ pc' = "freeze"
  /\ error' = [type |-> type, msg |-> msg]

(* an exception leaves main: nothing after the raising line runs           *)
Abort(type, msg) ==
  /\ pc' = "aborted"
  /\ error' = [type |-> type, msg |-> msg]

---------------------------------------------------------------------------
Init ==
  /\ cfg \in [ pretrained_encoder : [ name : {None} \cup { Str(s) : s \in EncoderNames },
                                      freeze : BOOLEAN ],
               model : [ has_test_ds : BOOLEAN,
                         test_ds : [ manifest_filepath : ManifestValues ] ] ]
  /\ (~cfg.model.has_test_ds) => cfg.model.test_ds.manifest_filepath = None
  /\ files \in {{}} \cup { {n} : n \in EncoderNames \ {<<>>} }
  /\ test_ready \in BOOLEAN
  /\ pc = "resolve"
  /\ params = InitParams
  /\ requires_grad = [k \in TargetKeys |-> TRUE]
  /\ log = <<>>
  /\ loads = <<>>
  /\ applied = <<>>
  /\ trace = <<>>
  /\ error = NoError

name == cfg.pretrained_encoder.name

(* lines 116-117                                                           *)
NotUsingPretrained ==
  /\ pc = "resolve"
  /\ ~UsePretrained(name)
  /\ log' = Append(log, "Not using pretrained encoder.")
  /\ pc' = "freeze"
  /\ UNCHANGED <<cfg, files, test_ready, params, requires_grad, loads, applied, trace, error>>

(* Variant: the mapping is applied a second time.                          *)
ApplyToModel_Twice(sd) ==
  LET r == LoadStateDict(params, sd, Strict)
      e == [target |-> "model", sd |-> sd, strict |-> Strict] IN
    /\ applied' = applied \o <<e, e>>
    /\ params' = r.params
    /\ IF r.ok THEN pc' = "freeze" /\ UNCHANGED error
               ELSE Abort("RuntimeError", <<>>)

(* model.load_state_dict(state_dict, strict=False), line 101               *)
ApplyToModel(sd) ==
  LET r == LoadStateDict(params, sd, Strict) IN
    /\ applied' = Append(applied, [target |-> "model", sd |-> sd, strict |-> Strict])
    /\ params' = r.params
    /\ IF r.ok THEN pc' = "freeze" /\ UNCHANGED error
               ELSE Abort("RuntimeError", <<>>)

(* model.encoder.load_state_dict(..., strict=False), line 114              *)
ApplyToEncoder(sd) ==
  LET r == LoadStateDict(SubStateDict(params, "encoder"), sd, Strict) IN
    /\ applied' = Append(applied, [target |-> "encoder", sd |-> sd, strict |-> Strict])
    /\ params' = [k \in DOMAIN params |-> IF k[1] = "encoder" THEN r.params[k[2]] ELSE params[k]]
    /\ IF r.ok THEN pc' = "freeze" /\ UNCHANGED error
               ELSE Abort("RuntimeError", <<>>)

(* lines 90-94, 101-102: raw PyTorch Lightning checkpoint                  *)
LoadCheckpoint ==
  /\ pc = "resolve"
  /\ UsePretrained(name)
  /\ IsFile(name, files)
  /\ ~IsNemoFile(name)
  /\ log' = Append(log, "Loading encoder from PyTorch Lightning checkpoint")
  /\ \/ \E sd \in SourceDicts :
          LET ckpt == [state_dict |-> sd, epoch |-> 1] IN
            /\ loads' = Append(loads, [op |-> "torch.load", cls |-> "torch", arg |-> name.str, ok |-> TRUE, result |-> ckpt])
            /\ ApplyToModel(ckpt["state_dict"])
     \/ /\ loads' = Append(loads, [op |-> "torch.load", cls |-> "torch", arg |-> name.str, ok |-> TRUE, result |-> [epoch |-> 1]])
        /\ Abort("KeyError", <<>>)
        /\ UNCHANGED <<params, applied>>
     \/ /\ loads' = Append(loads, [op |-> "torch.load", cls |-> "torch", arg |-> name.str, ok |-> FALSE, result |-> NoDict])
        /\ Abort("LoadError", <<>>)
        /\ UNCHANGED <<params, applied>>
  /\ UNCHANGED <<cfg, files, test_ready, requires_grad, trace>>

(* lines 95-102: NeMo archive                                              *)
RestoreArchive ==
  /\ pc = "resolve"
  /\ UsePretrained(name)
  /\ IsFile(name, files)
  /\ IsNemoFile(name)
  /\ log' = Append(log, "Loading pretrained encoder from NeMo file")
  /\ \/ \E sd \in SourceDicts :
          /\ loads' = Append(loads, [op |-> "restore_from", cls |-> "ASRModel", arg |-> name.str, ok |-> TRUE, result |-> sd])
          /\ ApplyToModel(sd)
     \/ /\ loads' = Append(loads, [op |-> "restore_from", cls |-> "ASRModel", arg |-> name.str, ok |-> FALSE, result |-> NoDict])
        /\ Abort("LoadError", <<>>)
        /\ UNCHANGED <<params, applied>>
  /\ UNCHANGED <<cfg, files, test_ready, requires_grad, trace>>

(* lines 104-108, 111-115: model fetched from NGC by name                  *)
FromPretrained ==
  /\ pc = "resolve"
  /\ UsePretrained(name)
  /\ ~IsFile(name, files)
  /\ ModelCls(name) # "ValueError"
  /\ log' = Append(log, "Loading pretrained encoder from NGC")
  /\ \/ \E sd \in SourceDicts :
          /\ loads' = Append(loads, [op |-> "from_pretrained", cls |-> ModelCls(name), arg |-> name.str, ok |-> TRUE, result |-> sd])
          /\ ApplyToEncoder(SubStateDict(sd, "encoder"))
     \/ /\ loads' = Append(loads, [op |-> "from_pretrained", cls |-> ModelCls(name), arg |-> name.str, ok |-> FALSE, result |-> NoDict])
        /\ Abort("LoadError", <<>>)
        /\ UNCHANGED <<params, applied>>
  /\ UNCHANGED <<cfg, files, test_ready, requires_grad, trace>>

(* lines 104, 109-110                                                      *)
RaiseUnknown ==
  /\ pc = "resolve"
  /\ UsePretrained(name)
  /\ ~IsFile(name, files)
  /\ ModelCls(name) = "ValueError"
  /\ log' = Append(log, "Loading pretrained encoder from NGC")
  /\ Abort("ValueError", name.str)
  /\ UNCHANGED <<cfg, files, test_ready, params, requires_grad, loads, applied, trace>>

(* Variant: the policy is applied only when weights were loaded.           *)
FreezePolicy_OnlyIfLoaded ==
  /\ pc = "freeze"
  /\ IF applied = <<>>
       THEN UNCHANGED <<requires_grad, trace, log>>
       ELSE IF cfg.pretrained_encoder.freeze
         THEN /\ log' = Append(log, "Freezing encoder...")
              /\ requires_grad' = Freeze(requires_grad)
              /\ trace' = Append(trace, "freeze")
         ELSE /\ requires_grad' = Unfreeze(requires_grad)
              /\ trace' = Append(trace, "unfreeze")
              /\ UNCHANGED log
  /\ pc' = "fit"
  /\ UNCHANGED <<cfg, files, test_ready, params, loads, applied, error>>

(* lines 119-123                                                           *)
FreezePolicy ==
  /\ pc = "freeze"
  /\ IF cfg.pretrained_encoder.freeze
       THEN /\ log' = Append(log, "Freezing encoder...")
            /\ requires_grad' = Freeze(requires_grad)
            /\ trace' = Append(trace, "freeze")
       ELSE /\ requires_grad' = Unfreeze(requires_grad)
            /\ trace' = Append(trace, "unfreeze")
            /\ UNCHANGED log
  /\ pc' = "fit"
  /\ UNCHANGED <<cfg, files, test_ready, params, loads, applied, error>>

(* line 125: training updates the parameters that require gradients, or    *)
(* fails; a failure propagates.                                            *)
Fit ==
  /\ pc = "fit"
  /\ trace' = Append(trace, "fit")
  /\ \/ /\ \E steps \in BOOLEAN :
             params' = [k \in DOMAIN params |->
                          IF steps /\ requires_grad[k] THEN TrainedVal ELSE params[k]]
        /\ pc' = "test"
        /\ UNCHANGED error
     \/ /\ Abort("FitError", <<>>)
        /\ UNCHANGED params
  /\ UNCHANGED <<cfg, files, test_ready, requires_grad, log, loads, applied>>

(* Variant: only the presence of the section is tested.                    *)
ManifestGate_HasattrOnly(c) == c.model.has_test_ds

(* line 127                                                                *)
ManifestGate(c) == c.model.has_test_ds /\ c.model.test_ds.manifest_filepath # None

(* lines 127-129                                                           *)
TestPhase ==
  /\ pc = "test"
  /\ IF ManifestGate(cfg)
       THEN trace' = trace \o <<"prepare_test">> \o (IF test_ready THEN <<"test">> ELSE <<>>)
       ELSE UNCHANGED trace
  /\ pc' = "done"
  /\ UNCHANGED <<cfg, files, test_ready, params, requires_grad, log, loads, applied, error>>

Next ==
  \/ NotUsingPretrained
  \/ LoadCheckpoint
  \/ RestoreArchive
  \/ FromPretrained
  \/ RaiseUnknown
  \/ FreezePolicy
  \/ Fit
  \/ TestPhase

Spec == Init /\ [][Next]_vars

---------------------------------------------------------------------------
(* Vocabulary of the properties                                            *)
InTrace(x) == \E i \in DOMAIN trace : trace[i] = x
InLog(m) == \E i \in DOMAIN log : log[i] = m
HasLoad(op) == \E i \in DOMAIN loads : loads[i].op = op

(* The resolver has finished (or failed) and trainer.fit has not acted.    *)
AfterResolution == pc # "resolve" /\ ~InTrace("fit")

EncoderKeys == { k \in TargetKeys : k[1] = "encoder" }
NameIsFile == name # None /\ name.str \in files
NameHasPrefix(p) == name # None /\ StartsWith(name.str, p)

BranchNone == InLog("Not using pretrained encoder.")
BranchLocal == InLog("Loading encoder from PyTorch Lightning checkpoint")
                 \/ InLog("Loading pretrained encoder from NeMo file")
BranchSymbolic == InLog("Loading pretrained encoder from NGC")

ResolverDidNothing ==
  /\ params = InitParams
  /\ loads = <<>>
  /\ applied = <<>>
  /\ error = NoError

(* C1 as stated: for a name that is None or the empty string the resolver  *)
(* does nothing: parameters stay as initialised, no load, no error.        *)
C1_Original ==
  (AfterResolution /\ (name = None \/ name = Str(<<>>))) => ResolverDidNothing

(* C1 amended: for the name None the resolver does nothing (parameters as  *)
(* initialised, no load, no error); the empty string is not treated as     *)
(* absent: it ends in the unknown-encoder error, still without any load.   *)
C1_NoneDoesNothing ==
  /\ (AfterResolution /\ name = None) => ResolverDidNothing
  /\ (AfterResolution /\ name = Str(<<>>)) =>
        /\ error = [type |-> "ValueError", msg |-> <<>>]
        /\ params = InitParams /\ loads = <<>> /\ applied = <<>>

C1_Witness == name = None /\ pc = "fit" /\ BranchNone

(* C2 as stated: after fit returns, trainer.test runs iff test_ds is       *)
(* present, its manifest_filepath is neither None nor "", and prepare_test *)
(* returns true; otherwise the test phase is skipped without error.        *)
C2_Original ==
  pc = "done" =>
    /\ InTrace("test") <=>
         /\ cfg.model.has_test_ds
         /\ cfg.model.test_ds.manifest_filepath # None
         /\ cfg.model.test_ds.manifest_filepath # Str(<<>>)
         /\ test_ready
    /\ error = NoError

(* C2 amended: after fit returns, trainer.test runs iff test_ds is present,*)
(* its manifest_filepath is not None (the empty string passes) and         *)
(* prepare_test returns true; otherwise the phase is skipped, no error.    *)
C2_TestGate ==
  pc = "done" =>
    /\ InTrace("test") <=>
         /\ cfg.model.has_test_ds
         /\ cfg.model.test_ds.manifest_filepath # None
         /\ test_ready
    /\ error = NoError

C2_Witness ==
  pc = "done" /\ InTrace("test") /\ cfg.model.test_ds.manifest_filepath = Str(<<"m">>)

(* C3: a name with no local file and neither prefix fails with ValueError  *)
(* carrying the name; nothing was loaded or applied, no parameter changed. *)
C3_UnknownFailsWithoutLoad ==
  ( /\ pc # "resolve"
    /\ name # None
    /\ name.str \notin files
    /\ ~StartsWith(name.str, Prefix_ssl)
    /\ ~StartsWith(name.str, Prefix_stt) ) =>
      /\ pc = "aborted"
      /\ error = [type |-> "ValueError", msg |-> name.str]
      /\ loads = <<>>
      /\ applied = <<>>
      /\ params = InitParams

C3_Witness ==
  pc = "aborted" /\ error.type = "ValueError" /\ name = Str(<<"s", "s", "l">>) /\ files = {}

(* C4: when trainer.fit is called, every encoder parameter has gradients   *)
(* disabled if the freeze flag is true and enabled if it is false, in      *)
(* every sourcing branch.                                                  *)
C4_FreezeFlagDecides ==
  pc = "fit" =>
    \A k \in EncoderKeys : requires_grad[k] = ~cfg.pretrained_encoder.freeze

C4_Witness ==
  pc = "fit" /\ cfg.pretrained_encoder.freeze /\ BranchNone
    /\ \A k \in EncoderKeys : ~requires_grad[k]

(* C5: exactly one sourcing branch is taken; an existing local file always *)
(* takes the local-file branch whatever its prefix (no from_pretrained, no *)
(* ValueError); the symbolic branch needs a name that is not a file.       *)
C5_BranchPriority ==
  pc # "resolve" =>
    /\ Len(SelectSeq(log, LAMBDA m : m # "Freezing encoder...")) = 1
    /\ BranchNone <=> name = None
    /\ BranchLocal <=> NameIsFile
    /\ BranchSymbolic <=> (name # None /\ name.str \notin files)
    /\ NameIsFile => (~HasLoad("from_pretrained") /\ error.type # "ValueError")
    /\ (HasLoad("from_pretrained") \/ error.type = "ValueError") => BranchSymbolic
    /\ (HasLoad("torch.load") \/ HasLoad("restore_from")) => BranchLocal

C5_Witness ==
  pc = "freeze" /\ NameIsFile /\ NameHasPrefix(Prefix_ssl) /\ BranchLocal /\ applied # <<>>

(* C6: a non-file name starting with ssl_ is fetched with                  *)
(* SpeechEncDecSelfSupervisedModel, one starting with stt_ with ASRModel;  *)
(* only the fetched encoder's mapping is applied, to the target's encoder, *)
(* and every parameter outside the encoder keeps its value.                *)
C6_SymbolicEncoderOnly ==
  ( /\ pc # "resolve"
    /\ name # None
    /\ name.str \notin files
    /\ (StartsWith(name.str, Prefix_ssl) \/ StartsWith(name.str, Prefix_stt)) ) =>
      /\ Len(loads) = 1
      /\ loads[1].op = "from_pretrained"
      /\ loads[1].arg = name.str
      /\ loads[1].cls = (IF StartsWith(name.str, Prefix_ssl)
                           THEN "SpeechEncDecSelfSupervisedModel" ELSE "ASRModel")
      /\ IF loads[1].ok
           THEN /\ Len(applied) = 1
                /\ applied[1].target = "encoder"
                /\ applied[1].sd = SubStateDict(loads[1].result, "encoder")
           ELSE applied = <<>>
      /\ AfterResolution =>
           \A k \in TargetKeys \ EncoderKeys : params[k] = InitParams[k]

C6_Witness ==
  /\ pc = "freeze"
  /\ NameHasPrefix(Prefix_ssl)
  /\ HasLoad("from_pretrained")
  /\ params[<<"encoder", "a">>] # InitVal
  /\ <<"decoder", "a">> \in DOMAIN loads[1].result

(* C7: for an existing local file the suffix picks the source: without     *)
(* ".nemo" torch.load and the "state_dict" entry, with ".nemo"             *)
(* ASRModel.restore_from and its full state_dict; the one application is   *)
(* load_state_dict on the whole model.                                     *)
C7_LocalFileWholeModel ==
  ( pc # "resolve" /\ name # None /\ name.str \in files ) =>
      /\ Len(loads) = 1
      /\ loads[1].arg = name.str
      /\ IF EndsWith(name.str, Suffix_nemo)
           THEN /\ loads[1].op = "restore_from"
                /\ loads[1].cls = "ASRModel"
                /\ IF loads[1].ok
                     THEN applied = <<[target |-> "model", sd |-> loads[1].result, strict |-> FALSE]>>
                     ELSE applied = <<>>
           ELSE /\ loads[1].op = "torch.load"
                /\ IF loads[1].ok /\ "state_dict" \in DOMAIN loads[1].result
                     THEN applied = <<[target |-> "model", sd |-> loads[1].result["state_dict"],
                                       strict |-> FALSE]>>
                     ELSE applied = <<>>
      /\ (AfterResolution /\ applied # <<>>) =>
           \A k \in TargetKeys :
             params[k] = IF k \in DOMAIN applied[1].sd THEN applied[1].sd[k] ELSE InitVal

C7_Witness ==
  /\ pc = "freeze"
  /\ name = Str(<<"x", "n", "e", "m", "o">>)
  /\ HasLoad("torch.load")
  /\ params[<<"decoder", "a">>] # InitVal

(* C8: every load is non-strict: differing key sets raise no error, target *)
(* parameters absent from the source keep their initial value, source      *)
(* entries absent from the target are dropped, the common ones are copied. *)
C8_NonStrictLoad ==
  applied # <<>> =>
    /\ \A i \in DOMAIN applied : applied[i].strict = FALSE
    /\ error.type # "RuntimeError"
    /\ AfterResolution =>
         /\ pc = "freeze" \/ pc = "fit"
         /\ DOMAIN params = TargetKeys
         /\ \A k \in TargetKeys :
              LET sd == applied[1].sd
                  key == IF applied[1].target = "encoder" THEN k[2] ELSE k
                  covered == applied[1].target = "model" \/ k[1] = "encoder" IN
                params[k] = IF covered /\ key \in DOMAIN sd THEN sd[key] ELSE InitVal

C8_Witness ==
  /\ pc = "freeze"
  /\ Len(applied) = 1
  /\ applied[1].target = "model"
  /\ DOMAIN applied[1].sd = { <<"encoder", "a">>, <<"encoder", "c">> }
  /\ params[<<"encoder", "a">>] = 1
  /\ params[<<"encoder", "b">>] = InitVal

(* C9 as stated: in every run the resolver applies weights exactly once,   *)
(* before trainer.fit.                                                     *)
C9_Original ==
  InTrace("fit") => Len(applied) = 1

(* C9 amended: the resolver applies weights at most once and only before   *)
(* trainer.fit: exactly once when a local file or an ssl_/stt_ model was   *)
(* loaded successfully, never for the name None or after a failure; no     *)
(* application happens once training has begun.                            *)
C9_AtMostOnceBeforeFit ==
  /\ [](Len(applied) <= 1)
  /\ [](pc \in {"freeze", "fit", "test", "done"} => (Len(applied) = 1 <=> name # None))
  /\ [](name = None => applied = <<>>)
  /\ [][InTrace("fit") => applied' = applied]_vars
  /\ [][(pc \in {"freeze", "fit", "test", "done"}) => applied' = applied]_vars

C9_Witness ==
  pc = "done" /\ Len(applied) = 1 /\ params[<<"encoder", "a">>] = TrainedVal

(* C10: once the unknown-encoder ValueError is raised the run is over: the *)
(* freeze policy is not applied, fit and test are never called.            *)
C10_UnknownIsFatal ==
  /\ [](error.type = "ValueError" =>
          /\ pc = "aborted"
          /\ trace = <<>>
          /\ ~InLog("Freezing encoder...")
          /\ requires_grad = [k \in TargetKeys |-> TRUE])
  /\ [][error.type = "ValueError" => UNCHANGED vars]_vars

C10_Witness ==
  pc = "aborted" /\ error = [type |-> "ValueError", msg |-> <<"x">>] /\ cfg.pretrained_encoder.freeze

====
